---------------------------- MODULE Spec2Model ----------------------------
(***************************************************************************)
(* ReplayableInteractiveProMP (src/src/promp/replayable.py): a recorder    *)
(* that stores the demonstrations and goal requests fed to an interactive  *)
(* motion-primitive learner in a dataset directory, and replays them.      *)
(*                                                                         *)
(* Python values are encoded as follows.                                   *)
(*   - an optional value (None or v) is the tuple <<>> or <<v>>;           *)
(*   - a directory is a function from file names to file contents, a file  *)
(*     system a function from directory paths to directories; a path that  *)
(*     does not exist is outside the DOMAIN;                               *)
(*   - a raised exception is the field raised = TRUE of a call's outcome.  *)
(* One recorder is held at a time; constructing a recorder replaces it,    *)
(* over the same datasets folder.                                          *)
(* The base class InteractiveProMP (the Learner) is not part of the        *)
(* sources; its operations are modelled from its documented interface.     *)
(***************************************************************************)
EXTENDS Integers, Sequences, FiniteSets, TLC

VARIABLES
    id,              \* self.id
    dataset_path,    \* self.dataset_path
    record_demo_id,  \* self.record_demo_id
    record_goal_id,  \* self.record_goal_id
    sequence,        \* self.sequence
    learner,         \* the state of the base class (promps, goal_id, goal_log, goal)
    disk,            \* the file system under path_ds
    pc,              \* "idle", "play" inside the loop of play(), or "failed"
                     \* when __init__ raised (no recorder to call)
    frame,           \* the locals of the running play(): parameters, loop index, timeline
    last,            \* history: the last call that ended, its arguments and outcome
    epoch,           \* history: the events recorded in the current recording pass
    ncalls,          \* history: the number of calls made (constructions included)
    claimed          \* history: the ids that constructions with dataset_id < 0 selected

vars == <<id, dataset_path, record_demo_id, record_goal_id, sequence, learner,
          disk, pc, frame, last, epoch, ncalls, claimed>>

-----------------------------------------------------------------------------
(* Bounds of the model and the inputs the calls are drawn from.            *)

MaxCalls == 5       \* at most this many calls are made on the recorder

None == <<>>
Some(v) == <<v>>

\* Joint-space demonstrations; 0 stands for a malformed one the Learner refuses.
Demonstrations == {0, 1, 2}
\* The end effector path that goes with a joint-space demonstration.
EefOf(demonstration) == demonstration + 10
\* Task-space goals (0: malformed) and optional joint-space goals.
CartesianGoals == {0, 11}
JointGoals == {None, Some(21)}


-----------------------------------------------------------------------------
(* json and the file system (os.path.exists/isfile/join, os.makedirs,      *)
(* open, json.dump, json.load).                                            *)

\* json.dump(obj, f): the text written for obj.
json_dump(obj) == [json |-> obj]
\* json.load(f): the object a text stands for.
json_load(text) == text.json

\* join(path_ds, 'dataset_{}'.format(dataset_id))
get_dataset_path(dataset_id) == <<"dataset", dataset_id>>
\* join(self.dataset_path, '<stem>_{}.json'.format(i)) and join(self.dataset_path, 'sequence.json')
FileName(stem, i) == <<stem, i>>
sequence_file == <<"sequence">>

exists(fs, path) == path \in DOMAIN fs
isfile(dir, name) == name \in DOMAIN dir
EmptyDir == <<>>
\* No directory is created.
NoDirectory(fs, path) == fs
\* makedirs(path) when the path does not exist
makedirs(fs, path) == IF exists(fs, path) THEN fs ELSE (path :> EmptyDir) @@ fs
\* with open(name, 'w') as f: json.dump(obj, f)   (creates or truncates the file)
WriteJson(dir, name, obj) == (name :> json_dump(obj)) @@ dir
\* with open(name) as f: json.load(f)   (the caller checks ReadFails first)
ReadJson(dir, name) == json_load(dir[name])
\* open(name) raises IOError when the file does not exist
ReadFails(dir, name) == ~isfile(dir, name)

-----------------------------------------------------------------------------
(* The Learner: InteractiveProMP, the base class.  It keeps a list of      *)
(* primitives (promps), each the list of the demonstrations it absorbed,   *)
(* and the last goal with its id and diagnostic log.  Every operation is a *)
(* deterministic function of the Learner's state and the arguments.        *)

\* The state after construction and after clear().
LearnerCleared == [promps |-> <<>>, goal_id |-> 0, goal_log |-> None, goal |-> None]

num_primitives(L) == Len(L.promps)

\* The task-space context of a demonstration: where its end effector path ends.
ContextOf(eef_demonstration) == eef_demonstration

\* The Learner's own placement: the first primitive of the same context, or
\* a new primitive (whose index is the current primitive count).
Placement(L, eef_demonstration) ==
    LET same == {k \in 1..Len(L.promps) :
                    ContextOf(L.promps[k][1].eef) = ContextOf(eef_demonstration)}
    IN  IF same = {} THEN num_primitives(L)
        ELSE (CHOOSE k \in same : \A j \in same : k <= j) - 1

\* A demonstration the Learner refuses (raises on).
MalformedDemo(demonstration, eef_demonstration) ==
    demonstration = 0 \/ eef_demonstration # EefOf(demonstration)

\* Learner.add_demonstration(demonstration, eef_demonstration, force_mp_target):
\* force_mp_target None or -1 leaves the placement to the Learner, k >= 0
\* forces primitive k, which must exist.
LearnerAddDemonstration(L, demonstration, eef_demonstration, force_mp_target) ==
    LET target == IF force_mp_target = None \/ force_mp_target = Some(-1)
                  THEN Placement(L, eef_demonstration)
                  ELSE force_mp_target[1]
        item == [joint |-> demonstration, eef |-> eef_demonstration]
    IN  IF MalformedDemo(demonstration, eef_demonstration)
           \/ target < 0 \/ target > num_primitives(L)
           \/ (force_mp_target # None /\ force_mp_target # Some(-1)
                 /\ target >= num_primitives(L))
        THEN [raised |-> TRUE, ret |-> None, learner |-> L]
        ELSE [raised |-> FALSE, ret |-> target,
              learner |-> [L EXCEPT !.promps =
                  IF target = num_primitives(L)
                  THEN Append(L.promps, <<item>>)
                  ELSE [L.promps EXCEPT ![target + 1] = Append(@, item)]]]

\* Whether some primitive reaches x_des: one of its context; without the
\* post-process refining it takes a primitive fitted on two demonstrations.
Reaches(L, x_des, refining) ==
    \E k \in 1..Len(L.promps) :
        /\ ContextOf(L.promps[k][1].eef) = x_des
        /\ (refining \/ Len(L.promps[k]) >= 2)

\* Learner.set_goal(x_des, joint_des, refining): joint_des only goes to the log.
LearnerSetGoal(L, x_des, joint_des, refining) ==
    IF x_des = 0
    THEN [raised |-> TRUE, ret |-> FALSE, learner |-> L]
    ELSE LET ok == Reaches(L, x_des, refining)
         IN  [raised |-> FALSE, ret |-> ok,
              learner |-> [L EXCEPT !.goal_id = @ + 1,
                                    !.goal = IF ok THEN Some(x_des) ELSE None,
                                    !.goal_log = Some([reached |-> ok, joint_des |-> joint_des])]]

\* Learner.generate_trajectory(): the trajectory to the goal just set.
LearnerGenerateTrajectory(L) == [to |-> L.goal, primitives |-> num_primitives(L)]

\* Learner.clear()
LearnerClear(L) == LearnerCleared

-----------------------------------------------------------------------------
(* ReplayableInteractiveProMP: construction.                               *)

\* range(100) in generate_next_dataset
NumDatasetIds == 100

\* generate_next_dataset returning the last path it tried when none is free.
generate_last_dataset(fs, dataset_id) ==
    LET free == {i \in 0..(NumDatasetIds - 1) : ~exists(fs, get_dataset_path(i))}
    IN  IF free = {}
        THEN [id |-> dataset_id, path |-> Some(get_dataset_path(NumDatasetIds - 1))]
        ELSE LET first == CHOOSE i \in free : \A j \in free : i <= j
             IN  [id |-> first, path |-> Some(get_dataset_path(first))]

\* generate_next_dataset(): the first id of range(100) whose path does not
\* exist becomes self.id and its path is returned; None when there is none.
generate_next_dataset(fs, dataset_id) ==
    LET free == {i \in 0..(NumDatasetIds - 1) : ~exists(fs, get_dataset_path(i))}
    IN  IF free = {}
        THEN [id |-> dataset_id, path |-> None]
        ELSE LET first == CHOOSE i \in free : \A j \in free : i <= j
             IN  [id |-> first, path |-> Some(get_dataset_path(first))]

\* A new dataset selected whatever dataset_id is.
ResolveAuto(fs, dataset_id) == generate_next_dataset(fs, dataset_id)

\* self.id and self.dataset_path as __init__ sets them (lines 21-33).
ResolveDataset(fs, dataset_id) ==
    IF dataset_id < 0 THEN generate_next_dataset(fs, dataset_id)
    ELSE [id |-> dataset_id, path |-> Some(get_dataset_path(dataset_id))]

\* A Demo event that does not keep the primitive the Learner returned.
DemoEventUntargeted(promp_index) == [type |-> "demo", added_to |-> -1]

\* The events of the log and of the timeline.
DemoEvent(promp_index) == [type |-> "demo", added_to |-> promp_index]
GoalEvent(goal_id, goal_log) == [type |-> "goal", id |-> goal_id, log |-> goal_log]
DemoResult(target) == [type |-> "demo", added_to |-> target]
GoalResult(is_reached, goal_log, trajectory) ==
    [type |-> "goal", is_reached |-> is_reached, log |-> goal_log, trajectory |-> trajectory]

\* The locals of play() when no play() is running.
IdleFrame == [keep_targets |-> TRUE, refining |-> TRUE, i |-> 0,
              timeline |-> <<>>, calls |-> <<>>]

\* History: the recording pass under way.  events: kind and outcome of every
\* recording call that returned in the pass; closed: close() ended the pass;
\* played: play() was called since the last close() (or construction);
\* clean: the pass began right after construction or close() and no play()
\* was called in it; pass: the number of the pass, from 1.
NewEpoch == [events |-> <<>>, closed |-> FALSE, played |-> FALSE,
             clean |-> TRUE, pass |-> 1]

\* A recording call on a pass that close() ended opens the next pass.
Opened(ep) ==
    IF ep.closed
    THEN [ep EXCEPT !.events = <<>>, !.closed = FALSE, !.clean = ~ep.played,
                    !.pass = @ + 1]
    ELSE ep

\* A recording call returned: its kind, outcome and arguments join the events
\* of the pass.
Recorded(ep, kind, outcome, args) ==
    [Opened(ep) EXCEPT !.events = Append(@, [type |-> kind, out |-> outcome,
                                             args |-> args])]

Counters == [demo |-> record_demo_id, goal |-> record_goal_id]

\* The dataset directory of the recorder.
Dir == disk[dataset_path[1]]
PutDir(dir) == [disk EXCEPT ![dataset_path[1]] = dir]

Init ==
    LET ds == ResolveDataset(<<>>, -1)
    IN  /\ id = ds.id
        /\ dataset_path = ds.path
        /\ disk = makedirs(<<>>, ds.path[1])
        /\ record_demo_id = 0
        /\ record_goal_id = 0
        /\ sequence = <<>>
        /\ learner = LearnerCleared
        /\ pc = "idle"
        /\ frame = IdleFrame
        /\ last = [op |-> "init", raised |-> FALSE, args |-> <<>>, ret |-> None,
                   calls |-> <<>>, pre |-> [demo |-> 0, goal |-> 0]]
        /\ epoch = NewEpoch
        /\ ncalls = 0
        /\ claimed = {ds.id}

\* Lines 21-35 on file system fs: self.id, self.dataset_path and the file
\* system they leave. When generate_next_dataset found no free id it returned
\* None, and exists(None) at line 34 raises TypeError.
Constructed(fs, dataset_id) ==
    LET ds == ResolveDataset(fs, dataset_id)
    IN  [id |-> ds.id, dataset_path |-> ds.path, raised |-> ds.path = None,
         disk |-> IF ds.path = None THEN fs ELSE makedirs(fs, ds.path[1])]

\* History of a construction: its argument and whether it raised.
ConstructCall(dataset_id, raised) ==
    [op |-> "init", raised |-> raised, args |-> <<dataset_id>>, ret |-> None,
     calls |-> <<>>, pre |-> [demo |-> 0, goal |-> 0]]

\* The ids selected so far, with the one this construction selected.
Claiming(ids, dataset_id, made) ==
    IF dataset_id < 0 /\ ~made.raised THEN ids \cup {made.id} ELSE ids

\* Lines 21-41: a recorder is constructed, over the datasets folder as it
\* is, and replaces the recorder held so far.
Construct(dataset_id) ==
    /\ pc \in {"idle", "failed"}
    /\ ncalls < MaxCalls
    /\ ncalls' = ncalls + 1
    /\ LET made == Constructed(disk, dataset_id)
       IN  /\ id' = made.id
           /\ dataset_path' = made.dataset_path
           /\ disk' = made.disk
           /\ pc' = IF made.raised THEN "failed" ELSE "idle"
           /\ last' = ConstructCall(dataset_id, made.raised)
           /\ claimed' = Claiming(claimed, dataset_id, made)
    /\ record_demo_id' = 0
    /\ record_goal_id' = 0
    /\ sequence' = <<>>
    /\ learner' = LearnerCleared
    /\ frame' = IdleFrame
    /\ epoch' = NewEpoch

\* The datasets folder after k recorders were constructed with a negative
\* dataset_id and nothing was recorded: datasets 0..k-1, empty.
Prefilled(k) == [p \in {get_dataset_path(i) : i \in 0..(k - 1)} |-> EmptyDir]

\* The values of dataset_id constructions are called with.
ConstructIds == {-1, 0, NumDatasetIds - 1}
ReopenIds == {0, 1}

\* A recorder constructed over a datasets folder that earlier constructions
\* with a negative dataset_id filled.
InitDatasets ==
    \E k \in 0..NumDatasetIds, dataset_id \in ConstructIds :
        LET made == Constructed(Prefilled(k), dataset_id)
        IN  /\ id = made.id
            /\ dataset_path = made.dataset_path
            /\ disk = made.disk
            /\ pc = IF made.raised THEN "failed" ELSE "idle"
            /\ last = ConstructCall(dataset_id, made.raised)
            /\ claimed = Claiming(0..(k - 1), dataset_id, made)
            /\ record_demo_id = 0
            /\ record_goal_id = 0
            /\ sequence = <<>>
            /\ learner = LearnerCleared
            /\ frame = IdleFrame
            /\ epoch = NewEpoch
            /\ ncalls = 0

-----------------------------------------------------------------------------
(* Recording: add_demonstration, set_goal, close.                          *)

\* A counter that is not advanced.
SameCounter(c) == c

\* self.record_demo_id += 1, self.record_goal_id += 1
NextCounter(c) == c + 1

\* Only the joint-space payload is written.
PersistJointOnly(dir, i, demonstration, eef_demonstration) ==
    WriteJson(dir, FileName("demo", i), demonstration)

\* The payloads of a demonstration, and the manifest flushed with them.
PersistDemoFlushing(dir, i, demonstration, eef_demonstration) ==
    WriteJson(WriteJson(WriteJson(dir, FileName("demo", i), demonstration),
                        FileName("path", i), eef_demonstration),
              sequence_file, sequence)

\* Lines 51-56: both payloads of a demonstration, under index i.
PersistDemo(dir, i, demonstration, eef_demonstration) ==
    WriteJson(WriteJson(dir, FileName("demo", i), demonstration),
              FileName("path", i), eef_demonstration)

\* Only the task-space goal is written.
PersistCartOnly(dir, i, x_des, joint_des) ==
    WriteJson(dir, FileName("cart_goal", i), x_des)

\* Lines 71-77: the payloads of a goal, under index i.
PersistGoal(dir, i, x_des, joint_des) ==
    LET cart == WriteJson(dir, FileName("cart_goal", i), x_des)
    IN  IF joint_des # None
        THEN WriteJson(cart, FileName("joint_goal", i), joint_des[1])
        ELSE cart

\* add_demonstration advancing the demo counter before it calls the Learner.
AddDemonstrationCounting(demonstration, eef_demonstration) ==
    /\ pc = "idle"
    /\ ncalls < MaxCalls
    /\ ncalls' = ncalls + 1
    /\ LET call == LearnerAddDemonstration(learner, demonstration, eef_demonstration, None)
       IN  /\ disk' = PutDir(PersistDemo(Dir, record_demo_id, demonstration, eef_demonstration))
           /\ learner' = call.learner
           /\ record_demo_id' = NextCounter(record_demo_id)
           /\ IF call.raised
              THEN /\ UNCHANGED sequence
                   /\ epoch' = Opened(epoch)
              ELSE /\ sequence' = Append(sequence, DemoEvent(call.ret))
                   /\ epoch' = Recorded(epoch, "demo", call.ret,
                                             <<demonstration, eef_demonstration>>)
           /\ last' = [op |-> "add_demonstration", raised |-> call.raised,
                       args |-> <<demonstration, eef_demonstration>>,
                       ret |-> call.ret, calls |-> <<>>, pre |-> Counters]
    /\ UNCHANGED <<claimed, id, dataset_path, record_goal_id, pc, frame>>

\* Lines 43-61: add_demonstration.
AddDemonstration(demonstration, eef_demonstration) ==
    /\ pc = "idle"
    /\ ncalls < MaxCalls
    /\ ncalls' = ncalls + 1
    /\ LET call == LearnerAddDemonstration(learner, demonstration, eef_demonstration, None)
       IN  /\ disk' = PutDir(PersistDemo(Dir, record_demo_id, demonstration, eef_demonstration))
           /\ learner' = call.learner
           /\ IF call.raised
              THEN /\ UNCHANGED <<sequence, record_demo_id>>
                   /\ epoch' = Opened(epoch)
              ELSE /\ sequence' = Append(sequence, DemoEvent(call.ret))
                   /\ record_demo_id' = NextCounter(record_demo_id)
                   /\ epoch' = Recorded(epoch, "demo", call.ret,
                                             <<demonstration, eef_demonstration>>)
           /\ last' = [op |-> "add_demonstration", raised |-> call.raised,
                       args |-> <<demonstration, eef_demonstration>>,
                       ret |-> call.ret, calls |-> <<>>, pre |-> Counters]
    /\ UNCHANGED <<claimed, id, dataset_path, record_goal_id, pc, frame>>

SetGoal(x_des, joint_des) ==
    /\ pc = "idle"
    /\ ncalls < MaxCalls
    /\ ncalls' = ncalls + 1
    /\ LET call == LearnerSetGoal(learner, x_des, joint_des, TRUE)
       IN  /\ learner' = call.learner
           /\ IF call.raised
              THEN /\ UNCHANGED <<disk, sequence, record_goal_id>>
                   /\ epoch' = Opened(epoch)
              ELSE /\ disk' = PutDir(PersistGoal(Dir, record_goal_id, x_des, joint_des))
                   /\ sequence' = Append(sequence,
                                         GoalEvent(call.learner.goal_id, call.learner.goal_log))
                   /\ record_goal_id' = NextCounter(record_goal_id)
                   /\ epoch' = Recorded(epoch, "goal", call.ret, <<x_des, joint_des>>)
           /\ last' = [op |-> "set_goal", raised |-> call.raised,
                       args |-> <<x_des, joint_des>>,
                       ret |-> call.ret, calls |-> <<>>, pre |-> Counters]
    /\ UNCHANGED <<claimed, id, dataset_path, record_demo_id, pc, frame>>

\* The manifest written to a directory emptied first.
DumpSequenceAlone(dir, seq) == WriteJson(EmptyDir, sequence_file, seq)

\* Lines 83-85: the manifest written by close().
DumpSequence(dir, seq) == WriteJson(dir, sequence_file, seq)

Close ==
    /\ pc = "idle"
    /\ ncalls < MaxCalls
    /\ ncalls' = ncalls + 1
    /\ disk' = PutDir(DumpSequence(Dir, sequence))
    /\ record_demo_id' = 0
    /\ record_goal_id' = 0
    /\ learner' = LearnerClear(learner)
    /\ last' = [op |-> "close", raised |-> FALSE, args |-> <<>>, ret |-> None,
                calls |-> <<>>, pre |-> Counters]
    /\ epoch' = [epoch EXCEPT !.closed = TRUE, !.played = FALSE]
    /\ UNCHANGED <<claimed, id, dataset_path, sequence, pc, frame>>

-----------------------------------------------------------------------------
(* Replay: _play_next_demo, _play_next_goal, play.                         *)

\* The override taken with < in place of <=.
PrompTargetStrict(n_primitives, receiving_promp) ==
    IF n_primitives < receiving_promp THEN -1 ELSE receiving_promp

\* Line 98: promp_target = -1 if self.num_primitives <= receiving_promp else receiving_promp
PrompTarget(n_primitives, receiving_promp) ==
    IF n_primitives <= receiving_promp THEN -1 ELSE receiving_promp

\* Line 134: event['added_to'] if keep_targets else -1
ReceivingPromp(event, keep_targets) ==
    IF keep_targets THEN event.added_to ELSE -1

\* _play_next_demo advancing the demo counter before it reads the payloads.
play_next_demo_counting(dir, c, L, receiving_promp) ==
    IF ReadFails(dir, FileName("demo", c)) \/ ReadFails(dir, FileName("path", c))
    THEN [raised |-> TRUE, ret |-> None, counter |-> NextCounter(c), learner |-> L,
          calls |-> <<>>]
    ELSE LET demonstration == ReadJson(dir, FileName("demo", c))
             eef_demonstration == ReadJson(dir, FileName("path", c))
             promp_target == PrompTarget(num_primitives(L), receiving_promp)
             call == LearnerAddDemonstration(L, demonstration, eef_demonstration,
                                             Some(promp_target))
         IN  [raised |-> call.raised, ret |-> call.ret, counter |-> NextCounter(c),
              learner |-> call.learner,
              calls |-> << [fn |-> "add_demonstration",
                            args |-> <<demonstration, eef_demonstration>>,
                            force_mp_target |-> promp_target,
                            receiving_promp |-> receiving_promp,
                            n_primitives |-> num_primitives(L)] >>]

\* _play_next_demo(receiving_promp) on directory dir, demo counter c and
\* Learner L: the outcome, the counter and Learner it leaves, and the
\* Learner calls it made.
play_next_demo(dir, c, L, receiving_promp) ==
    IF ReadFails(dir, FileName("demo", c)) \/ ReadFails(dir, FileName("path", c))
    THEN [raised |-> TRUE, ret |-> None, counter |-> c, learner |-> L, calls |-> <<>>]
    ELSE LET demonstration == ReadJson(dir, FileName("demo", c))
             eef_demonstration == ReadJson(dir, FileName("path", c))
             promp_target == PrompTarget(num_primitives(L), receiving_promp)
             call == LearnerAddDemonstration(L, demonstration, eef_demonstration,
                                             Some(promp_target))
         IN  [raised |-> call.raised, ret |-> call.ret, counter |-> NextCounter(c),
              learner |-> call.learner,
              calls |-> << [fn |-> "add_demonstration",
                            args |-> <<demonstration, eef_demonstration>>,
                            force_mp_target |-> promp_target,
                            receiving_promp |-> receiving_promp,
                            n_primitives |-> num_primitives(L)] >>]

\* _play_next_goal asking for a trajectory whatever the Learner answered.
play_next_goal_unguarded(dir, c, L, refining) ==
    IF ReadFails(dir, FileName("cart_goal", c))
    THEN [raised |-> TRUE, ret |-> None, counter |-> c, learner |-> L, calls |-> <<>>]
    ELSE LET x_des == ReadJson(dir, FileName("cart_goal", c))
             joint_des == IF isfile(dir, FileName("joint_goal", c))
                          THEN Some(ReadJson(dir, FileName("joint_goal", c)))
                          ELSE None
             call == LearnerSetGoal(L, x_des, joint_des, refining)
             set == [fn |-> "set_goal", args |-> <<x_des, joint_des>>,
                     refining |-> refining, ret |-> call.ret]
             gen == [fn |-> "generate_trajectory", args |-> <<>>]
         IN  [raised |-> call.raised,
              ret |-> <<call.ret, Some(LearnerGenerateTrajectory(call.learner))>>,
              counter |-> NextCounter(c), learner |-> call.learner,
              calls |-> <<set, gen>>]

\* _play_next_goal(refining), likewise; ret is (result, trajectory). The
\* record of the set_goal call keeps what the Learner answered.
play_next_goal(dir, c, L, refining) ==
    IF ReadFails(dir, FileName("cart_goal", c))
    THEN [raised |-> TRUE, ret |-> None, counter |-> c, learner |-> L, calls |-> <<>>]
    ELSE LET x_des == ReadJson(dir, FileName("cart_goal", c))
             joint_des == IF isfile(dir, FileName("joint_goal", c))
                          THEN Some(ReadJson(dir, FileName("joint_goal", c)))
                          ELSE None
             call == LearnerSetGoal(L, x_des, joint_des, refining)
             set == [fn |-> "set_goal", args |-> <<x_des, joint_des>>,
                     refining |-> refining, ret |-> call.ret]
             gen == [fn |-> "generate_trajectory", args |-> <<>>]
         IN  IF call.raised
             THEN [raised |-> TRUE, ret |-> None, counter |-> NextCounter(c),
                   learner |-> call.learner, calls |-> <<set>>]
             ELSE [raised |-> FALSE,
                   ret |-> <<call.ret,
                             IF call.ret
                             THEN Some(LearnerGenerateTrajectory(call.learner))
                             ELSE None>>,
                   counter |-> NextCounter(c), learner |-> call.learner,
                   calls |-> IF call.ret THEN <<set, gen>> ELSE <<set>>]

\* The in-memory sequence kept in place of the manifest.
KeptSequence(dir, seq) == seq

\* Lines 127-129: the manifest read by play().
LoadSequence(dir, seq) == ReadJson(dir, sequence_file)

\* History of a play() call: its arguments; in_memory: the in-memory sequence
\* it found; after_close: it is the first call after the close() that ended
\* a clean pass; after_init: it is the first call on the recorder.
PlayArgs(keep_targets, refining) ==
    [keep_targets |-> keep_targets, refining |-> refining, in_memory |-> sequence,
     after_close |-> last.op = "close" /\ epoch.clean,
     after_init |-> last.op = "init"]

\* The counters left as play() found them.
KeptCounters(counters) == counters

\* Lines 124-125: play() starts from the first payload of each kind.
PlayCounters(counters) == [demo |-> 0, goal |-> 0]

\* Lines 124-131 of play(): the counters, the manifest, the empty timeline.
PlayBegin(keep_targets, refining) ==
    /\ pc = "idle"
    /\ ncalls < MaxCalls
    /\ ncalls' = ncalls + 1
    /\ record_demo_id' = PlayCounters(Counters).demo
    /\ record_goal_id' = PlayCounters(Counters).goal
    /\ epoch' = [epoch EXCEPT !.played = TRUE,
                              !.clean = IF epoch.closed THEN @ ELSE FALSE]
    /\ IF ReadFails(Dir, sequence_file)
       THEN /\ last' = [op |-> "play", raised |-> TRUE,
                        args |-> PlayArgs(keep_targets, refining), ret |-> None,
                        calls |-> <<>>, pre |-> Counters]
            /\ UNCHANGED <<sequence, pc, frame>>
       ELSE /\ sequence' = LoadSequence(Dir, sequence)
            /\ pc' = "play"
            /\ frame' = [keep_targets |-> keep_targets, refining |-> refining, i |-> 1,
                         timeline |-> <<>>, calls |-> <<>>]
            /\ last' = [op |-> "play_begin", raised |-> FALSE,
                        args |-> PlayArgs(keep_targets, refining), ret |-> None,
                        calls |-> <<>>, pre |-> Counters]
    /\ UNCHANGED <<claimed, id, dataset_path, learner, disk>>

\* The events taken from the last to the first.
NextEventReversed(seq, i) == seq[Len(seq) + 1 - i]

\* Line 132: the event of the i-th turn of the loop.
NextEvent(seq, i) == seq[i]

\* The Learner calls of one event, tagged with the turn of the loop that made them.
Tagged(calls, i) == [k \in 1..Len(calls) |-> [ev |-> i, call |-> calls[k]]]

\* Lines 132-138: one turn of the loop of play().
PlayStep ==
    /\ pc = "play"
    /\ frame.i <= Len(sequence)
    /\ LET event == NextEvent(sequence, frame.i)
           r == IF event.type = "demo"
                THEN play_next_demo(Dir, record_demo_id, learner,
                                    ReceivingPromp(event, frame.keep_targets))
                ELSE play_next_goal(Dir, record_goal_id, learner, frame.refining)
           calls == frame.calls \o Tagged(r.calls, frame.i)
       IN  /\ learner' = r.learner
           /\ IF event.type = "demo"
              THEN record_demo_id' = r.counter /\ UNCHANGED record_goal_id
              ELSE record_goal_id' = r.counter /\ UNCHANGED record_demo_id
           /\ IF r.raised
              THEN /\ pc' = "idle"
                   /\ frame' = IdleFrame
                   /\ last' = [last EXCEPT !.op = "play", !.raised = TRUE, !.calls = calls]
              ELSE /\ pc' = "play"
                   /\ frame' = [frame EXCEPT
                          !.i = @ + 1,
                          !.calls = calls,
                          !.timeline = Append(@,
                              IF event.type = "demo"
                              THEN DemoResult(r.ret)
                              ELSE GoalResult(r.ret[1], r.learner.goal_log, r.ret[2]))]
                   /\ last' = last
    /\ UNCHANGED <<claimed, id, dataset_path, sequence, disk, epoch, ncalls>>

\* Line 139: return timeline
PlayReturn ==
    /\ pc = "play"
    /\ frame.i > Len(sequence)
    /\ pc' = "idle"
    /\ last' = [last EXCEPT !.op = "play", !.ret = Some(frame.timeline),
                            !.calls = frame.calls]
    /\ frame' = IdleFrame
    /\ UNCHANGED <<claimed, id, dataset_path, record_demo_id, record_goal_id, sequence,
                   learner, disk, epoch, ncalls>>

-----------------------------------------------------------------------------
Next ==
    \/ \E d \in Demonstrations : AddDemonstration(d, EefOf(d))
    \/ \E x \in CartesianGoals, j \in JointGoals : SetGoal(x, j)
    \/ Close
    \/ \E k \in BOOLEAN, r \in BOOLEAN : PlayBegin(k, r)
    \/ PlayStep
    \/ PlayReturn

Spec == Init /\ [][Next]_vars

\* Recorders constructed one after the other over a datasets folder.
NextConstruct == \E dataset_id \in ConstructIds : Construct(dataset_id)

SpecConstruct == InitDatasets /\ [][NextConstruct]_vars

\* The operations of a recorder, and recorders constructed on given datasets.
NextReopen ==
    \/ Next
    \/ \E dataset_id \in ReopenIds : Construct(dataset_id)

SpecReopen == Init /\ [][NextReopen]_vars

-----------------------------------------------------------------------------
(* Definitions shared by the properties.                                   *)

\* The manifest on disk (the dataset directory holds sequence.json).
HasManifest == isfile(Dir, sequence_file)
Manifest == ReadJson(Dir, sequence_file)

\* The number of events of a kind in a sequence of events.
RECURSIVE CountKind(_, _)
CountKind(seq, kind) ==
    IF seq = <<>> THEN 0
    ELSE (IF Head(seq).type = kind THEN 1 ELSE 0) + CountKind(Tail(seq), kind)

\* play() has returned its timeline, and nothing was called since.
PlayCompleted == pc = "idle" /\ last.op = "play" /\ ~last.raised
Timeline == last.ret[1]

\* The outcome a timeline entry reports.
OutcomeOf(entry) == IF entry.type = "demo" THEN entry.added_to ELSE entry.is_reached

\* The timeline reproduces the recorded events, kind and outcome, in order.
Reproduces(timeline, events) ==
    /\ Len(timeline) = Len(events)
    /\ \A i \in 1..Len(events) :
          /\ timeline[i].type = events[i].type
          /\ OutcomeOf(timeline[i]) = events[i].out

-----------------------------------------------------------------------------
\* C1: round trip. When play(keep_targets=True, refining=True) is the call
\* that follows the close() of a recording pass (a pass that started from a
\* cleared Learner, with no play() in it), it returns a timeline with one
\* entry per event recorded in the pass, of the same kind and outcome.
C1_RoundTrip ==
    (pc = "idle" /\ last.op = "play" /\ last.args.after_close
        /\ last.args.keep_targets /\ last.args.refining /\ epoch.events # <<>>)
    => (~last.raised /\ Reproduces(Timeline, epoch.events))

\* The round trip of the first pass of a recorder: the case of C1 that the
\* accumulation of passes in self.sequence does not reach.
RoundTripFirstPass ==
    (pc = "idle" /\ last.op = "play" /\ last.args.after_close
        /\ last.args.keep_targets /\ last.args.refining /\ epoch.pass = 1)
    => (~last.raised /\ Reproduces(Timeline, epoch.events))

RoundTripFirstPassWitness ==
    /\ PlayCompleted /\ last.args.after_close /\ epoch.pass = 1
    /\ last.args.keep_targets /\ last.args.refining
    /\ Len(Timeline) = 3
    /\ \E i \in 1..3 : Timeline[i].type = "goal" /\ Timeline[i].is_reached

\* C2: close() prepares a fresh recording pass on the same dataset. When
\* close() ends a pass that began right after an earlier close() (no play()
\* in between), the manifest it writes holds, for each kind, as many events
\* as the counter of that kind counted in the pass.
C2_FreshPass ==
    [][(last'.op = "close" /\ ~epoch.closed /\ epoch.clean /\ epoch.pass >= 2
          /\ epoch.events # <<>>)
        => /\ CountKind(Manifest', "demo") = record_demo_id
           /\ CountKind(Manifest', "goal") = record_goal_id]_vars

\* The state play() would leave in a cleared Learner: the events of seq from
\* the i-th on, replayed once each, in order, from counters cd and cg.
RECURSIVE Replayed(_, _, _, _, _, _, _, _)
Replayed(seq, i, dir, cd, cg, L, keep_targets, refining) ==
    IF i > Len(seq) THEN [raised |-> FALSE, learner |-> L]
    ELSE LET event == seq[i]
             r == IF event.type = "demo"
                  THEN play_next_demo(dir, cd, L, ReceivingPromp(event, keep_targets))
                  ELSE play_next_goal(dir, cg, L, refining)
         IN  IF r.raised THEN [raised |-> TRUE, learner |-> r.learner]
             ELSE Replayed(seq, i + 1, dir,
                           IF event.type = "demo" THEN r.counter ELSE cd,
                           IF event.type = "demo" THEN cg ELSE r.counter,
                           r.learner, keep_targets, refining)

\* C3: whenever play() completes, the Learner holds the state obtained by
\* submitting the events of the manifest once each, in order, to a cleared
\* Learner under the policy of the call. Stated for the calls the claim
\* names: no recording call was made since the last close(), so that only
\* close() and play() precede this play() on the closed dataset.
C3_ExactState ==
    (PlayCompleted /\ epoch.closed)
    => learner = Replayed(Manifest, 1, Dir, 0, 0, LearnerCleared,
                          last.args.keep_targets, last.args.refining).learner

\* The Learner calls of the play() under way, or of the play() that ended last.
InPlay == pc = "play" \/ (pc = "idle" /\ last.op = "play")
CallsMade == IF pc = "play" THEN frame.calls ELSE last.calls
IsSubmission(c) == c.call.fn # "generate_trajectory"
Submissions == SelectSeq(CallsMade, IsSubmission)
SubmissionOf(kind) == IF kind = "demo" THEN "add_demonstration" ELSE "set_goal"

\* C4: ordering. play() submits the events of the manifest to the Learner in
\* persisted order, one submission per event, none skipped or moved; the
\* timeline it returns has one entry per event of the manifest and its i-th
\* entry has the kind of the i-th event.
C4_Ordering ==
    /\ pc = "play" =>
          /\ Len(Submissions) = frame.i - 1
          /\ Len(frame.timeline) = frame.i - 1
          /\ \A i \in 1..Len(frame.timeline) : frame.timeline[i].type = Manifest[i].type
    /\ PlayCompleted =>
          /\ Len(Timeline) = Len(Manifest)
          /\ Len(Submissions) = Len(Manifest)
          /\ \A i \in 1..Len(Manifest) : Timeline[i].type = Manifest[i].type
    /\ (InPlay /\ HasManifest) =>
          /\ \A i \in 1..Len(Submissions) :
                /\ Submissions[i].ev = i
                /\ Submissions[i].call.fn = SubmissionOf(Manifest[i].type)
          /\ \A k \in 1..(Len(CallsMade) - 1) : CallsMade[k].ev <= CallsMade[k + 1].ev

C4_Witness ==
    /\ PlayCompleted
    /\ Len(Manifest) = 3
    /\ Manifest[1].type = "goal" /\ Manifest[2].type = "demo" /\ Manifest[3].type = "goal"
    /\ Len(CallsMade) = 4

\* C5: target override. For every Demo event play() replays, the
\* force_mp_target handed to the Learner is -1 when keep_targets is false or
\* the recorded added_to is >= the primitive count of the Learner at that
\* moment, and is the recorded added_to otherwise; it is never an index >=
\* that primitive count.
C5_TargetOverride ==
    (InPlay /\ HasManifest) =>
        \A k \in 1..Len(CallsMade) :
            LET c == CallsMade[k].call
                added_to == Manifest[CallsMade[k].ev].added_to
            IN  c.fn = "add_demonstration" =>
                  /\ c.force_mp_target =
                        IF ~last.args.keep_targets \/ added_to >= c.n_primitives
                        THEN -1 ELSE added_to
                  /\ c.force_mp_target < c.n_primitives

C5_Witness ==
    /\ PlayCompleted /\ last.args.keep_targets
    /\ \E k \in 1..Len(CallsMade) :
          /\ CallsMade[k].call.fn = "add_demonstration"
          /\ Manifest[CallsMade[k].ev].added_to >= CallsMade[k].call.n_primitives
          /\ CallsMade[k].call.force_mp_target = -1
    /\ \E k \in 1..Len(CallsMade) :
          /\ CallsMade[k].call.fn = "add_demonstration"
          /\ CallsMade[k].call.n_primitives = 2
          /\ CallsMade[k].call.force_mp_target = 1

\* C6: counters while recording. On a newly constructed recorder, after K
\* add_demonstration calls and M set_goal calls that returned normally (and
\* no close() or play()), record_demo_id = K and record_goal_id = M; after
\* close(), both counters are 0.
C6_Counters ==
    /\ (epoch.pass = 1 /\ ~epoch.closed /\ ~epoch.played) =>
          /\ record_demo_id = CountKind(epoch.events, "demo")
          /\ record_goal_id = CountKind(epoch.events, "goal")
    /\ last.op = "close" => (record_demo_id = 0 /\ record_goal_id = 0)

C6_Witness ==
    /\ epoch.pass = 1 /\ ~epoch.closed /\ ~epoch.played
    /\ record_demo_id = 2 /\ record_goal_id = 2
    /\ last.raised

\* C7: counters after replay. Whenever play() completes, record_demo_id is
\* the number of Demo events of the manifest and record_goal_id the number
\* of its Goal events, whatever the counters were when play() was called.
C7_CountersAfterPlay ==
    PlayCompleted =>
        /\ record_demo_id = CountKind(Manifest, "demo")
        /\ record_goal_id = CountKind(Manifest, "goal")

C7_Witness ==
    /\ PlayCompleted
    /\ last.pre.demo = 1 /\ last.pre.goal = 1
    /\ record_demo_id = 1 /\ record_goal_id = 0

\* C8: the manifest is the sole source of truth for replay. Once play() has
\* read the manifest, the in-memory sequence is the content of the manifest
\* and only events of the manifest are replayed: events recorded in memory
\* and not flushed by close() are neither replayed nor kept.
C8_ManifestOnly ==
    (InPlay /\ HasManifest) =>
        /\ sequence = Manifest
        /\ Len(Submissions) <= Len(Manifest)
        /\ \A k \in 1..Len(CallsMade) : CallsMade[k].ev \in 1..Len(Manifest)

C8_Witness ==
    /\ PlayCompleted
    /\ Len(last.args.in_memory) = 3
    /\ Len(Manifest) = 1
    /\ Len(Timeline) = 1

\* The payload files of a directory: every file but the manifest.
PayloadFiles(dir) == [n \in (DOMAIN dir) \ {sequence_file} |-> dir[n]]

\* C9: close() writes a manifest equal to the in-memory sequence, in place of
\* any earlier manifest, clears the Learner and leaves every payload file as
\* it was; a close() that follows a close() leaves the manifest unchanged.
C9_Close ==
    [][last'.op = "close" =>
          /\ HasManifest' /\ Manifest' = sequence
          /\ sequence' = sequence
          /\ learner' = LearnerCleared
          /\ PayloadFiles(Dir') = PayloadFiles(Dir)
          /\ (last.op = "close" => (HasManifest /\ Manifest' = Manifest))]_vars

C9_Witness ==
    /\ last.op = "close"
    /\ epoch.pass = 2 /\ Len(epoch.events) = 1
    /\ Len(Manifest) = 3
    /\ isfile(Dir, FileName("cart_goal", 0)) /\ isfile(Dir, FileName("demo", 1))

\* C10, as claimed: when the Learner raises in add_demonstration or in
\* set_goal, the payload of the call is already persisted under the current
\* counter of its kind.
C10_PersistedOnRaise ==
    /\ (last.op = "add_demonstration" /\ last.raised) =>
          /\ ~ReadFails(Dir, FileName("demo", record_demo_id))
          /\ ReadJson(Dir, FileName("demo", record_demo_id)) = last.args[1]
          /\ ~ReadFails(Dir, FileName("path", record_demo_id))
          /\ ReadJson(Dir, FileName("path", record_demo_id)) = last.args[2]
    /\ (last.op = "set_goal" /\ last.raised) =>
          /\ ~ReadFails(Dir, FileName("cart_goal", record_goal_id))
          /\ ReadJson(Dir, FileName("cart_goal", record_goal_id)) = last.args[1]

\* C10, amended: when the Learner raises in add_demonstration, both payloads
\* of the call are already persisted under the current demo counter; when it
\* raises in set_goal, nothing of the call is persisted: no file is written.
C10_PersistedOnRaiseAmended ==
    [][/\ (last'.op = "add_demonstration" /\ last'.raised) =>
             /\ record_demo_id' = record_demo_id
             /\ ~ReadFails(Dir', FileName("demo", record_demo_id))
             /\ ReadJson(Dir', FileName("demo", record_demo_id)) = last'.args[1]
             /\ ~ReadFails(Dir', FileName("path", record_demo_id))
             /\ ReadJson(Dir', FileName("path", record_demo_id)) = last'.args[2]
       /\ (last'.op = "set_goal" /\ last'.raised) => disk' = disk]_vars

C10_Witness ==
    /\ last.op = "add_demonstration" /\ last.raised
    /\ record_demo_id = 1
    /\ ReadJson(Dir, FileName("demo", 1)) = 0
    /\ ~isfile(Dir, FileName("cart_goal", record_goal_id))

\* The files of directory after, but those named in names, are the files of
\* directory before, unchanged; no file of before is missing from after.
SameFilesBut(before, after, names) ==
    /\ (DOMAIN after) \ names = (DOMAIN before) \ names
    /\ \A n \in (DOMAIN after) \ names : after[n] = before[n]

\* C11: set_goal records every goal the Learner answers, accepted or not.
\* When the Learner returns, x_des is persisted under the value the goal
\* counter had before the call, joint_des under the same index only if it
\* was provided (no joint file is written otherwise), no other file is
\* touched, exactly one Goal event carrying the goal_id and goal_log of the
\* Learner as they are after the call is appended, the goal counter grows
\* by one, and the boolean of the Learner is returned unchanged.
C11_SetGoal ==
    [][(last'.op = "set_goal" /\ ~last'.raised) =>
          LET x_des == last'.args[1]
              joint_des == last'.args[2]
              cart == FileName("cart_goal", record_goal_id)
              joint == FileName("joint_goal", record_goal_id)
              call == LearnerSetGoal(learner, x_des, joint_des, TRUE)
          IN  /\ isfile(Dir', cart) /\ ReadJson(Dir', cart) = x_des
              /\ IF joint_des # None
                 THEN /\ isfile(Dir', joint) /\ ReadJson(Dir', joint) = joint_des[1]
                      /\ SameFilesBut(Dir, Dir', {cart, joint})
                 ELSE SameFilesBut(Dir, Dir', {cart})
              /\ learner' = call.learner
              /\ sequence' = Append(sequence, [type |-> "goal", id |-> learner'.goal_id,
                                                log |-> learner'.goal_log])
              /\ record_goal_id' = record_goal_id + 1
              /\ record_demo_id' = record_demo_id
              /\ last'.ret = call.ret]_vars

\* A goal the Learner refused was recorded, after one recorded with its
\* joint-space goal.
C11_Witness ==
    /\ last.op = "set_goal" /\ ~last.raised /\ last.ret = FALSE
    /\ last.args[2] = None
    /\ record_goal_id = 2
    /\ isfile(Dir, FileName("joint_goal", 0))
    /\ ~isfile(Dir, FileName("joint_goal", 1))
    /\ sequence[Len(sequence)].type = "goal"

\* C12: add_demonstration is a pass-through with persistence. When the
\* Learner returns, both payloads are written under the value i the demo
\* counter had before the call (demo_i, path_i) and no other file is
\* touched, the Learner has received the two payloads, exactly one Demo event
\* whose added_to is the index the Learner returned is appended, the demo
\* counter grows by one and that index is returned; the goal counter and
\* the manifest are unchanged.
C12_AddDemonstration ==
    [][(last'.op = "add_demonstration" /\ ~last'.raised) =>
          LET demonstration == last'.args[1]
              eef_demonstration == last'.args[2]
              demo == FileName("demo", record_demo_id)
              path == FileName("path", record_demo_id)
              call == LearnerAddDemonstration(learner, demonstration,
                                              eef_demonstration, None)
          IN  /\ isfile(Dir', demo) /\ ReadJson(Dir', demo) = demonstration
              /\ isfile(Dir', path) /\ ReadJson(Dir', path) = eef_demonstration
              /\ SameFilesBut(Dir, Dir', {demo, path})
              /\ learner' = call.learner
              /\ sequence' = Append(sequence, [type |-> "demo", added_to |-> call.ret])
              /\ record_demo_id' = record_demo_id + 1
              /\ last'.ret = call.ret
              /\ record_goal_id' = record_goal_id]_vars

\* A demonstration was recorded under index 1 and joined the second
\* primitive, with a manifest on disk.
C12_Witness ==
    /\ last.op = "add_demonstration" /\ ~last.raised
    /\ last.pre.demo = 1 /\ record_demo_id = 2
    /\ last.ret = 1
    /\ sequence[Len(sequence)] = [type |-> "demo", added_to |-> 1]
    /\ isfile(Dir, sequence_file)

\* The timeline of the play() under way, or the one the last play() returned.
TimelineSoFar ==
    IF pc = "play" THEN frame.timeline
    ELSE IF PlayCompleted THEN Timeline ELSE <<>>

\* C15: during replay a trajectory is requested only right after an
\* accepted set_goal. Every generate_trajectory call of play() comes right
\* after the set_goal call of the same event, which the Learner answered
\* true; every set_goal call the Learner answered true is followed at once
\* by generate_trajectory, and one it answered false is not; every goal
\* entry of a timeline carries the answer of its set_goal call and has
\* trajectory None exactly when is_reached is false.
C15_TrajectoryAfterAccept ==
    (InPlay /\ HasManifest) =>
        /\ \A k \in 1..Len(CallsMade) :
              LET c == CallsMade[k]
              IN  /\ c.call.fn = "generate_trajectory" =>
                        /\ k > 1
                        /\ CallsMade[k - 1].call.fn = "set_goal"
                        /\ CallsMade[k - 1].ev = c.ev
                        /\ CallsMade[k - 1].call.ret
                  /\ c.call.fn = "set_goal" =>
                        (c.call.ret <=>
                            /\ k < Len(CallsMade)
                            /\ CallsMade[k + 1].call.fn = "generate_trajectory"
                            /\ CallsMade[k + 1].ev = c.ev)
                  /\ (c.call.fn = "set_goal" /\ c.ev <= Len(TimelineSoFar)) =>
                        TimelineSoFar[c.ev].is_reached = c.call.ret
        /\ \A i \in 1..Len(TimelineSoFar) :
              TimelineSoFar[i].type = "goal" =>
                  (TimelineSoFar[i].trajectory = None <=> ~TimelineSoFar[i].is_reached)

\* A play() returned a timeline with a goal the Learner refused and a goal
\* it accepted.
C15_Witness ==
    /\ PlayCompleted
    /\ \E i \in 1..Len(Timeline) :
          /\ Timeline[i].type = "goal" /\ ~Timeline[i].is_reached
          /\ Timeline[i].trajectory = None
    /\ \E i \in 1..Len(Timeline) :
          /\ Timeline[i].type = "goal" /\ Timeline[i].is_reached
          /\ Timeline[i].trajectory # None
    /\ \E k \in 1..Len(CallsMade) : CallsMade[k].call.fn = "generate_trajectory"

\* The payload an event needs is not in the directory, under the counter of
\* its kind.
PayloadMissing(event, dir, counters) ==
    IF event.type = "demo"
    THEN ReadFails(dir, FileName("demo", counters.demo))
            \/ ReadFails(dir, FileName("path", counters.demo))
    ELSE ReadFails(dir, FileName("cart_goal", counters.goal))

C17_ManifestWriters ==
    [][/\ last'.op # "close" =>
             /\ HasManifest' = HasManifest
             /\ HasManifest => Manifest' = Manifest
       /\ last'.op \in {"play", "play_begin"} => disk' = disk
       /\ last'.op = "close" => (HasManifest' /\ Manifest' = sequence)]_vars

\* After a close() and a play(), a demonstration and a goal were recorded:
\* the manifest still holds the one event of the close().
C17_Witness ==
    /\ last.op = "set_goal" /\ ~last.raised
    /\ epoch.played
    /\ HasManifest /\ Len(Manifest) = 1
    /\ Len(sequence) = 3
    /\ sequence[1] = Manifest[1]

\* C20: a failure of the Learner during recording leaves the log untouched.
\* When the Learner raises in add_demonstration or in set_goal, no event is
\* appended and neither counter changes. So on a newly constructed recorder
\* (no close() and no play() yet), after any recording calls, failed or
\* not, the in-memory sequence holds as many events of each kind as the
\* counter of that kind says; and a successful call that follows a failed
\* call of its kind takes the payload index of the failed call: it writes
\* its payload over the one the failed add_demonstration left there.
C20_FailureLeavesLog ==
    [][/\ (last'.op \in {"add_demonstration", "set_goal"} /\ last'.raised) =>
             /\ sequence' = sequence
             /\ record_demo_id' = record_demo_id
             /\ record_goal_id' = record_goal_id
       /\ (epoch'.pass = 1 /\ ~epoch'.closed /\ ~epoch'.played) =>
             /\ CountKind(sequence', "demo") = record_demo_id'
             /\ CountKind(sequence', "goal") = record_goal_id'
       /\ (last.op = "add_demonstration" /\ last.raised
             /\ last'.op = "add_demonstration" /\ ~last'.raised) =>
             /\ last'.pre.demo = last.pre.demo
             /\ ReadJson(Dir, FileName("demo", last.pre.demo)) = last.args[1]
             /\ ReadJson(Dir', FileName("demo", last.pre.demo)) = last'.args[1]
             /\ ReadJson(Dir', FileName("path", last.pre.demo)) = last'.args[2]
       /\ (last.op = "set_goal" /\ last.raised
             /\ last'.op = "set_goal" /\ ~last'.raised) =>
             /\ last'.pre.goal = last.pre.goal
             /\ ReadJson(Dir', FileName("cart_goal", last.pre.goal)) = last'.args[1]]_vars

\* On a new recorder a demonstration was recorded, one was refused, and the
\* next one recorded took index 1, over the payload of the refused one; a
\* goal was refused too.
C20_Witness ==
    /\ epoch.pass = 1 /\ ~epoch.closed /\ ~epoch.played
    /\ last.op = "add_demonstration" /\ ~last.raised
    /\ last.pre.demo = 1 /\ record_demo_id = 2
    /\ Len(sequence) = 2
    /\ ncalls = 5
    /\ ReadJson(Dir, FileName("demo", 1)) = 2
    /\ ~isfile(Dir, FileName("cart_goal", 0))

\* The ids of 0..N-1 that have no dataset path in a file system.
FreeIds(fs) == {i \in 0..(NumDatasetIds - 1) : ~exists(fs, get_dataset_path(i))}

\* The step is a construction with this dataset_id.
Constructing(dataset_id) ==
    last'.op = "init" /\ ncalls' = ncalls + 1 /\ last'.args[1] = dataset_id

\* C13: uniqueness of the ids selected. A recorder constructed with a
\* negative dataset_id takes the smallest id of 0..N-1 whose dataset path
\* does not exist yet, and its directory exists (empty) once it is
\* constructed; so, in any sequence of constructions one after the other,
\* with negative or explicit ids, the id it takes is the id of no recorder
\* constructed with a negative id before it and of no dataset that was on
\* disk before it.
C13_AutoIdUnique ==
    [][\A dataset_id \in {d \in ConstructIds : d < 0} :
          (Constructing(dataset_id) /\ ~last'.raised) =>
             /\ id' \in FreeIds(disk)
             /\ \A j \in FreeIds(disk) : id' <= j
             /\ dataset_path' = Some(get_dataset_path(id'))
             /\ ~exists(disk, get_dataset_path(id'))
             /\ exists(disk', get_dataset_path(id'))
             /\ disk'[get_dataset_path(id')] = EmptyDir
             /\ id' \notin claimed
             /\ claimed' = claimed \cup {id'}]_vars

\* Dataset 0 was made by a recorder constructed with dataset_id = 0; the
\* recorder constructed next, with a negative id, took id 1, and the one
\* after it id 2.
C13_Witness ==
    /\ last.op = "init" /\ ~last.raised /\ last.args[1] < 0
    /\ ncalls = 2
    /\ id = 2
    /\ claimed = {1, 2}
    /\ DOMAIN disk = {get_dataset_path(i) : i \in 0..2}

\* C18: exhaustion of the ids. When dataset_id is negative and every id of
\* 0..N-1 has a dataset path, the selection returns no path and no id
\* (generate_next_dataset returns None and self.id stays the negative
\* dataset_id), it raises no signal of its own, and no dataset is claimed or
\* modified: the file system is unchanged. (What ends the construction is
\* the TypeError of exists(None) at line 34, so no recorder is obtained.)
C18_Exhaustion ==
    [][\A dataset_id \in {d \in ConstructIds : d < 0} :
          (Constructing(dataset_id) /\ FreeIds(disk) = {}) =>
             /\ generate_next_dataset(disk, dataset_id).path = None
             /\ dataset_path' = None
             /\ id' = dataset_id
             /\ disk' = disk
             /\ claimed' = claimed
             /\ pc' = "failed"]_vars

\* Datasets 0..97 were there, dataset 99 was made by a recorder constructed
\* with dataset_id = 99 and dataset 98 by one with a negative id; the next
\* construction with a negative id found no id.
C18_Witness ==
    /\ last.op = "init" /\ last.raised /\ last.args[1] < 0
    /\ pc = "failed"
    /\ ncalls = 2
    /\ dataset_path = None
    /\ claimed = 0..(NumDatasetIds - 2)
    /\ Cardinality(DOMAIN disk) = NumDatasetIds

\* C14: reopening. A recorder constructed with an explicit dataset_id d >= 0
\* has self.id = d and the path of dataset d, whether the dataset exists or
\* not, and the construction writes and deletes no file: every dataset on
\* disk keeps its files, and the only change is the empty directory made
\* for a dataset that did not exist. So the play() of a recorder newly
\* constructed on a dataset replays the manifest and the payloads as they
\* were left there: the events of that manifest, once each, in order, from
\* a cleared Learner.
C14_Reopen ==
    [][/\ \A dataset_id \in ReopenIds :
             Constructing(dataset_id) =>
                /\ ~last'.raised
                /\ id' = dataset_id
                /\ dataset_path' = Some(get_dataset_path(dataset_id))
                /\ DOMAIN disk' = (DOMAIN disk) \cup {get_dataset_path(dataset_id)}
                /\ \A p \in DOMAIN disk : disk'[p] = disk[p]
                /\ ~exists(disk, get_dataset_path(dataset_id)) =>
                       disk'[get_dataset_path(dataset_id)] = EmptyDir
                /\ claimed' = claimed
       /\ (pc = "play" /\ pc' = "idle" /\ ~last'.raised /\ last'.args.after_init) =>
             /\ sequence' = Manifest'
             /\ Len(last'.ret[1]) = Len(Manifest')
             /\ learner' = Replayed(Manifest', 1, Dir', 0, 0, LearnerCleared,
                                    last'.args.keep_targets,
                                    last'.args.refining).learner]_vars

\* A recorder constructed on dataset 0, which an earlier recorder recorded
\* and closed, replayed its two events, nothing else being called on it.
C14_Witness ==
    /\ PlayCompleted /\ last.args.after_init
    /\ id = 0
    /\ ncalls = 5
    /\ epoch.events = <<>>
    /\ Len(Timeline) = 2
    /\ Timeline[1].type = "demo" /\ Timeline[2].type = "goal"
    /\ Timeline[2].is_reached

\* C19: the goal payloads replayed are the ones recorded. When play()
\* follows the close() of the first recording pass of a recorder, every
\* set_goal call it makes on the Learner has the (x_des, joint_des) of the
\* set_goal call that recorded the event, joint_des being None when none was
\* given; also when the dataset directory held goal payload files of an
\* earlier recording.
C19_GoalPayloads ==
    (InPlay /\ HasManifest /\ last.args.after_close /\ epoch.pass = 1) =>
        \A k \in 1..Len(CallsMade) :
            CallsMade[k].call.fn = "set_goal" =>
                CallsMade[k].call.args = epoch.events[CallsMade[k].ev].args

=============================================================================
